---------------------------- MODULE Spec2Model ----------------------------
(***************************************************************************)
(* The launcher of .github/bootstrap/bootstrap.ts (invokeWith) and its     *)
(* earlier single-command form (run): resolve the released binary of the   *)
(* companion tool through the runner's tool cache, download and register   *)
(* it on a miss, then execute it.                                          *)
(*                                                                         *)
(* Strings that the code takes apart or puts together (URLs, names,        *)
(* paths) are sequences of one-character strings.  Values that are only    *)
(* compared or passed on (platform identifiers, input names, arguments,    *)
(* message texts) are TLA+ strings.                                        *)
(*                                                                         *)
(* The invocations of one behaviour run on one host, from one checkout of  *)
(* the launcher: they have the platform, the Cargo.toml and the launcher   *)
(* in common, and so the cache key.  Each is a process of its own; an      *)
(* action of the model is the code from one await to the next.  The        *)
(* libraries (@actions/core, exec, tool-cache, node:url, node:path) are    *)
(* modelled at their call sites: each call either returns what the         *)
(* library documents or throws an Error.                                   *)
(***************************************************************************)
EXTENDS Naturals, Sequences, FiniteSets

(***************************************************************************)
(* Bounds                                                                  *)
(***************************************************************************)
\* Number of invocations of the launcher that share one tool cache.  They
\* may run one after the other or overlap.
NumInvocations == 2

Invocations == 1..NumInvocations

(***************************************************************************)
(* The environment: process.platform, Cargo.toml, the workflow inputs      *)
(***************************************************************************)
\* process.platform; "freebsd" stands for every unsupported identifier.
Platforms == {"win32", "darwin", "linux", "freebsd"}

\* The identifier as the characters a template literal interpolates.
PlatformChars(p) ==
    CASE p = "win32"  -> <<"w", "i", "n", "3", "2">>
      [] p = "darwin" -> <<"d", "a", "r", "w", "i", "n">>
      [] p = "linux"  -> <<"l", "i", "n", "u", "x">>
      [] OTHER        -> <<"f", "r", "e", "e", "b", "s", "d">>

\* Cargo.toml files.  ok = FALSE: the file cannot be read or parsed, or lacks
\* the fields the code destructures.
MyCli ==
    [ok |-> TRUE,
     repository  |-> <<"h", "t", "t", "p", "s", ":", "/", "/", "g", "i", "t", "h", "u", "b", ".", "c", "o", "m", "/", "a", "c", "m", "e", "/", "m", "y", "c", "l", "i", ".", "g", "i", "t">>,
     version     |-> <<"1", ".", "2", ".", "3">>,
     packageName |-> <<"m", "y", "c", "l", "i">>,
     binName     |-> <<"m", "y", "c", "l", "i">>]

Actions ==
    [ok |-> TRUE,
     repository  |-> <<"h", "t", "t", "p", "s", ":", "/", "/", "g", "i", "t", "h", "u", "b", ".", "c", "o", "m", "/", "c", "o", "l", "i", "n", "c", "a", "s", "e", "y", "/", "l", "a", "n", "g", "u", "a", "g", "e", "s", "-", "g", "i", "t", "h", "u", "b", "-", "a", "c", "t", "i", "o", "n", "s">>,
     version     |-> <<"0", ".", "0", ".", "0">>,
     packageName |-> <<"l", "a", "n", "g", "u", "a", "g", "e", "s", "-", "g", "i", "t", "h", "u", "b", "-", "a", "c", "t", "i", "o", "n", "s">>,
     binName     |-> <<"a", "c", "t", "i", "o", "n", "s">>]

Broken ==
    [ok |-> FALSE,
     repository  |-> <<>>,
     version     |-> <<>>,
     packageName |-> <<>>,
     binName     |-> <<>>]

Manifests == {MyCli, Actions, Broken}

\* The inputs the update-builder action requires, in the order it reads them.
RequiredInputs == <<"buildpack_id", "buildpack_version", "buildpack_uri", "builders">>

InputNames == {RequiredInputs[i] : i \in 1..Len(RequiredInputs)}

\* What the caller supplied: a name maps to "" when the input is absent.
Supplied(S) == [n \in InputNames |-> IF n \in S THEN "value" ELSE ""]

InputCases ==
    {Supplied(InputNames),
     Supplied({"buildpack_id", "buildpack_uri"})}

\* The command of the single-command form.
RustCommands == {"prepare-release"}

(***************************************************************************)
(* String helpers                                                          *)
(***************************************************************************)
\* The least index i >= from with s[i] \in cs, or Len(s) + 1.
RECURSIVE IndexOfAny(_, _, _)
IndexOfAny(s, cs, from) ==
    IF from > Len(s) THEN Len(s) + 1
    ELSE IF s[from] \in cs THEN from
    ELSE IndexOfAny(s, cs, from + 1)

StartsWith(s, pre) ==
    /\ Len(s) >= Len(pre)
    /\ SubSeq(s, 1, Len(pre)) = pre

EndsWith(s, suf) ==
    /\ Len(s) >= Len(suf)
    /\ SubSeq(s, Len(s) - Len(suf) + 1, Len(s)) = suf

\* url.parse(u).pathname for a URL scheme://host/path?query#hash: what follows
\* the host up to the query or hash; "/" when the URL has no path.
urlParsePathname(u) ==
    LET colon     == IndexOfAny(u, {":"}, 1)
        hostStart == colon + 3
        pathStart == IndexOfAny(u, {"/", "?", "#"}, hostStart)
        pathEnd   == IndexOfAny(u, {"?", "#"}, pathStart)
        path      == SubSeq(u, pathStart, pathEnd - 1)
    IN  IF path = <<>> THEN <<"/">> ELSE path

\* .replace(/^\//, '')
StripLeadingSlash(s) ==
    IF StartsWith(s, <<"/">>) THEN Tail(s) ELSE s

\* .replace(/\.git$/, '')
StripGitSuffix(s) ==
    IF EndsWith(s, <<".", "g", "i", "t">>) THEN SubSeq(s, 1, Len(s) - 4) ELSE s

githubOrgAndName(repository) ==
    StripGitSuffix(StripLeadingSlash(urlParsePathname(repository)))

\* Mutant: the suffix on every platform but linux.
binaryNameUnlessLinux(platform, name) ==
    IF platform # "linux" THEN name \o <<".", "e", "x", "e">> ELSE name

binaryName(platform, name) ==
    IF platform = "win32" THEN name \o <<".", "e", "x", "e">> ELSE name

\* Mutant: the asset named after the platform's file name of the binary.
releaseUrlOfBinaryName(orgAndName, version, name, platform) ==
    <<"h", "t", "t", "p", "s", ":", "/", "/", "g", "i", "t", "h", "u", "b", ".", "c", "o", "m", "/">> \o orgAndName \o <<"/", "r", "e", "l", "e", "a", "s", "e", "s", "/", "d", "o", "w", "n", "l", "o", "a", "d", "/", "v">> \o version
        \o <<"/">> \o (IF platform = "win32" THEN name \o <<".", "e", "x", "e">> ELSE name)
        \o <<"-", "v">> \o version \o <<"-">> \o PlatformChars(platform) \o <<"-", "x", "6", "4", ".", "t", "a", "r", ".", "g", "z">>

releaseUrl(orgAndName, version, name, platform) ==
    <<"h", "t", "t", "p", "s", ":", "/", "/", "g", "i", "t", "h", "u", "b", ".", "c", "o", "m", "/">> \o orgAndName \o <<"/", "r", "e", "l", "e", "a", "s", "e", "s", "/", "d", "o", "w", "n", "l", "o", "a", "d", "/", "v">> \o version
        \o <<"/">> \o name \o <<"-", "v">> \o version \o <<"-">> \o PlatformChars(platform)
        \o <<"-", "x", "6", "4", ".", "t", "a", "r", ".", "g", "z">>

\* node:path join of a directory and one more segment: the platform's
\* separator between them, and on win32 every "/" turned into "\".
join(platform, dir, seg) ==
    LET sep == IF platform = "win32" THEN "\\" ELSE "/"
        raw == dir \o <<sep>> \o seg
    IN  [i \in 1..Len(raw) |-> IF platform = "win32" /\ raw[i] = "/" THEN "\\" ELSE raw[i]]

(***************************************************************************)
(* The runner: RUNNER_TEMP and the tool cache (@actions/tool-cache)        *)
(***************************************************************************)
tempDirectory(platform) ==
    IF platform = "win32" THEN <<"D", ":", "\\", "a", "\\", "_", "t", "e", "m", "p">> ELSE <<"/", "h", "o", "m", "e", "/", "r", "u", "n", "n", "e", "r", "/", "w", "o", "r", "k", "/", "_", "t", "e", "m", "p">>

ToolCacheRoot(platform) ==
    IF platform = "win32" THEN <<"C", ":", "\\", "h", "o", "s", "t", "e", "d", "t", "o", "o", "l", "c", "a", "c", "h", "e", "\\", "w", "i", "n", "d", "o", "w", "s">> ELSE <<"/", "o", "p", "t", "/", "h", "o", "s", "t", "e", "d", "t", "o", "o", "l", "c", "a", "c", "h", "e">>

\* The directory the tool cache keeps for a tool and version.
ToolPath(platform, tool, version) ==
    join(platform, join(platform, join(platform, ToolCacheRoot(platform), tool), version), <<"x", "6", "4">>)

\* The cache is a set of complete entries [tool, version, files].
HasEntry(c, tool, version) ==
    \E e \in c : e.tool = tool /\ e.version = version

\* find(toolName, versionSpec): the cached directory, or "" on a miss.
find(c, platform, tool, version) ==
    IF HasEntry(c, tool, version) THEN ToolPath(platform, tool, version) ELSE <<>>

\* Mutant: the target file name passed where the tool name belongs.
cacheFileUnderTarget(c, targetFile, tool, version) ==
    {e \in c : ~(e.tool = targetFile /\ e.version = version)}
        \cup {[tool |-> targetFile, version |-> version, files |-> {targetFile}]}

\* Mutant: a directory that is already there is cleared and not completed.
cacheFileClearsExisting(c, targetFile, tool, version) ==
    IF HasEntry(c, tool, version)
    THEN {e \in c : ~(e.tool = tool /\ e.version = version)}
    ELSE c \cup {[tool |-> tool, version |-> version, files |-> {targetFile}]}

\* cacheFile(sourceFile, targetFile, tool, version): the tool's directory is
\* made anew, holds the one file under the target name, and is marked complete.
cacheFile(c, targetFile, tool, version) ==
    {e \in c : ~(e.tool = tool /\ e.version = version)}
        \cup {[tool |-> tool, version |-> version, files |-> {targetFile}]}

\* An entry another tool left in the cache.
OtherEntry == [tool |-> <<"a", "c", "m", "e", "/", "o", "t", "h", "e", "r">>, version |-> <<"1", ".", "2", ".", "3">>, files |-> {<<"o", "t", "h", "e", "r">>}]

(***************************************************************************)
(* Errors                                                                  *)
(***************************************************************************)
Error(text, detail) == [isError |-> TRUE, text |-> text, detail |-> detail]

NoError == [isError |-> FALSE, text |-> "", detail |-> ""]

UnsupportedPlatform(platform) == Error("Unsupported platform: ", platform)

ManifestError == Error("Cannot destructure property of 'toml.package'", "")

DownloadError == Error("Unexpected HTTP response: ", "404")

ExtractionError == Error("The process 'tar' failed with exit code ", "2")

MissingFileError == Error("ENOENT: no such file or directory, stat", "")

MissingInput(name) == Error("Input required and not supplied: ", name)

ExitCodeError == Error("The process failed with exit code ", "1")

SpawnError == Error("There was an error when attempting to execute the process", "")

(***************************************************************************)
(* State                                                                   *)
(***************************************************************************)
VARIABLES
    platform,   \* process.platform of the host
    toml,       \* the parsed Cargo.toml beside the launcher
    variant,    \* which launcher the workflow uses: "invokeWith" or "run"
    cache,      \* the tool cache the invocations share
    cache0,     \* the tool cache as it was before the first invocation
    inv         \* per invocation, how far it is and what it did

vars == <<platform, toml, variant, cache, cache0, inv>>

\* An invocation that has not started.
Idle ==
    [pc |-> "idle",
     inputs |-> Supplied({}),
     command |-> "",
     steps |-> <<>>,
     lookup |-> [tool |-> <<>>, version |-> <<>>, present |-> FALSE],
     hit |-> FALSE,
     cachedPath |-> <<>>,
     url |-> <<>>,
     extracted |-> {},
     registered |-> <<>>,
     spawned |-> <<>>,
     thrown |-> NoError,
     failures |-> <<>>]

\* The name the launcher destructures: toml.bin[0].name in invokeWith,
\* toml.package.name in run.
name ==
    IF variant = "run" THEN toml.packageName ELSE toml.binName

orgAndName == githubOrgAndName(toml.repository)

\* Mutant: the error is noted and the invocation goes on.
RejectAndGoOn(r, e) == [r EXCEPT !.thrown = e]

Reject(r, e) == [r EXCEPT !.pc = "rejected", !.thrown = e]

Step(r, s) == [r EXCEPT !.steps = Append(@, s)]

(***************************************************************************)
(* The argument builder of update-builder and core.getInput                *)
(***************************************************************************)
\* The required inputs that are absent, by their place in the reading order.
MissingAt(inputs) == {i \in 1..Len(RequiredInputs) : inputs[RequiredInputs[i]] = ""}

FirstMissing(inputs) ==
    RequiredInputs[CHOOSE i \in MissingAt(inputs) : \A j \in MissingAt(inputs) : i <= j]

\* Mutant: inputs read without {required: true}.
getArgsNeverThrows(inputs) == FALSE

\* getInput(n, {required: true}) throws on the first absent input.
getArgsThrows(inputs) == MissingAt(inputs) # {}

getArgs(inputs) ==
    <<"update-builder",
      "--buildpack-id", inputs["buildpack_id"],
      "--buildpack-version", inputs["buildpack_version"],
      "--buildpack-uri", inputs["buildpack_uri"],
      "--builders", inputs["builders"]>>

(***************************************************************************)
(* The launcher                                                            *)
(***************************************************************************)
\* Mutant: no platform check.
SupportedAlways(p) == TRUE

Supported(p) == p = "win32" \/ p = "darwin" \/ p = "linux"

\* Mutant: the path joined with the platform's file name.
rustBinaryOfBinaryName(r) == join(platform, r.cachedPath, binaryName(platform, name))

rustBinary(r) == join(platform, r.cachedPath, name)

Exec(r, args) ==
    [Step(r, "exec") EXCEPT !.pc = "exec",
                            !.spawned = Append(@, [path |-> rustBinary(r), args |-> args])]

\* From the cached directory on: build the path and the arguments, and spawn.
Launch(r) ==
    IF variant = "run"
    THEN Exec(r, <<r.command>>)
    ELSE IF getArgsThrows(r.inputs)
         THEN Reject(Step(r, "getArgs"), MissingInput(FirstMissing(r.inputs)))
         ELSE Exec(Step(r, "getArgs"), getArgs(r.inputs))

\* Mutant: the download is not skipped on a hit.
needsDownloadAlways(cachedPath) == TRUE

\* if (!cachedPath): the empty string find returns on a miss is falsy.
needsDownload(cachedPath) == cachedPath = <<>>

\* The synchronous head of the async function, up to its first await.
Resolve(r) ==
    IF ~Supported(platform)
    THEN Reject(r, UnsupportedPlatform(platform))
    ELSE IF ~toml.ok
    THEN Reject(Step(r, "readManifest"), ManifestError)
    ELSE LET found == find(cache, platform, orgAndName, toml.version)
             r1    == [Step(Step(r, "readManifest"), "find") EXCEPT
                          !.lookup = [tool    |-> orgAndName,
                                      version |-> toml.version,
                                      present |-> HasEntry(cache, orgAndName, toml.version)],
                          !.hit = (found # <<>>),
                          !.cachedPath = found]
         IN  IF ~needsDownload(found)
             THEN Launch(r1)
             ELSE [Step(r1, "downloadTool") EXCEPT
                       !.pc = "downloadTool",
                       !.url = releaseUrl(orgAndName, toml.version, name, platform)]

Startable(p) == inv[p].pc = "idle"

invokeWith(p) ==
    /\ variant = "invokeWith"
    /\ Startable(p)
    /\ \E i \in InputCases :
          inv' = [inv EXCEPT ![p] = Resolve([Idle EXCEPT !.inputs = i])]
    /\ UNCHANGED <<platform, toml, variant, cache, cache0>>

run(p) ==
    /\ variant = "run"
    /\ Startable(p)
    /\ \E c \in RustCommands :
          inv' = [inv EXCEPT ![p] = Resolve([Idle EXCEPT !.command = c])]
    /\ UNCHANGED <<platform, toml, variant, cache, cache0>>

\* await downloadTool(releaseUrl) settles; on success extractTar is called.
DownloadSettles(p) ==
    /\ inv[p].pc = "downloadTool"
    /\ \E ok \in BOOLEAN :
          inv' = [inv EXCEPT ![p] =
                     IF ok THEN [Step(@, "extractTar") EXCEPT !.pc = "extractTar"]
                     ELSE Reject(@, DownloadError)]
    /\ UNCHANGED <<platform, toml, variant, cache, cache0>>

\* What a release archive may hold: the binary under its bare name or with
\* the Windows suffix, whatever the platform it was asked for.
ArchiveContents == {{name}, {name \o <<".", "e", "x", "e">>}}

extractedFile == join(platform, tempDirectory(platform), binaryName(platform, name))

\* await extractTar(downloadPath, tempDirectory) settles; on success cacheFile
\* is called with the expected file.
ExtractSettles(p) ==
    /\ inv[p].pc = "extractTar"
    /\ \/ inv' = [inv EXCEPT ![p] = Reject(@, ExtractionError)]
       \/ \E files \in ArchiveContents :
             inv' = [inv EXCEPT ![p] =
                        [Step(@, "cacheFile") EXCEPT
                            !.pc = "cacheFile",
                            !.extracted = files,
                            !.registered = Append(@,
                                [source  |-> extractedFile,
                                 target  |-> binaryName(platform, name),
                                 tool    |-> orgAndName,
                                 version |-> toml.version])]]
    /\ UNCHANGED <<platform, toml, variant, cache, cache0>>

\* await cacheFile(...) settles: it throws when the source file is not there.
CacheFileSettles(p) ==
    /\ inv[p].pc = "cacheFile"
    /\ IF binaryName(platform, name) \in inv[p].extracted
       THEN /\ cache' = cacheFile(cache, binaryName(platform, name), orgAndName, toml.version)
            /\ inv' = [inv EXCEPT ![p] =
                          Launch([@ EXCEPT !.cachedPath =
                                      ToolPath(platform, orgAndName, toml.version)])]
       ELSE /\ cache' = cache
            /\ inv' = [inv EXCEPT ![p] = Reject(@, MissingFileError)]
    /\ UNCHANGED <<platform, toml, variant, cache0>>

\* await exec(rustBinary, args) settles.
ExecSettles(p) ==
    /\ inv[p].pc = "exec"
    /\ \/ inv' = [inv EXCEPT ![p].pc = "ended"]
       \/ \E e \in {ExitCodeError, SpawnError} :
             inv' = [inv EXCEPT ![p] = Reject(@, e)]
    /\ UNCHANGED <<platform, toml, variant, cache, cache0>>

\* e.message
Message(e) == <<e.text, e.detail>>

\* Mutant: the instanceof test negated.
ReportedUnlessError(e, failures) ==
    IF ~e.isError THEN Append(failures, Message(e)) ELSE failures

\* if (e instanceof Error) { setFailed(e.message) }
Reported(e, failures) ==
    IF e.isError THEN Append(failures, Message(e)) ELSE failures

\* The .catch handler of invokeWith and run.
Catch(p) ==
    /\ inv[p].pc = "rejected"
    /\ inv' = [inv EXCEPT ![p].pc = "ended",
                           ![p].failures = Reported(inv[p].thrown, @)]
    /\ UNCHANGED <<platform, toml, variant, cache, cache0>>

(***************************************************************************)
(* Specification                                                           *)
(***************************************************************************)
\* The entry the launcher leaves in the cache for the manifest at hand.
OwnEntry ==
    [tool |-> orgAndName, version |-> toml.version,
     files |-> {binaryName(platform, name)}]

\* A runner's tool cache holds other tools; it may or may not hold the
\* launcher's own tool from an earlier job.
Init ==
    /\ platform \in Platforms
    /\ toml \in Manifests
    /\ variant \in {"invokeWith", "run"}
    /\ cache \in {{OtherEntry}} \cup
                 (IF toml.ok /\ Supported(platform) THEN {{OtherEntry, OwnEntry}} ELSE {})
    /\ cache0 = cache
    /\ inv = [p \in Invocations |-> Idle]

Next ==
    \E p \in Invocations :
        \/ invokeWith(p)
        \/ run(p)
        \/ DownloadSettles(p)
        \/ ExtractSettles(p)
        \/ CacheFileSettles(p)
        \/ ExecSettles(p)
        \/ Catch(p)

Spec == Init /\ [][Next]_vars

(***************************************************************************)
(* What the claims are stated with                                         *)
(***************************************************************************)
Did(p, s) == \E i \in DOMAIN inv[p].steps : inv[p].steps[i] = s

Count(p, s) == Cardinality({i \in DOMAIN inv[p].steps : inv[p].steps[i] = s})

Usable == Supported(platform) /\ toml.ok

\* Some required input is absent.
Omitted(p) == \E n \in InputNames : inv[p].inputs[n] = ""

\* The error names an input that is in fact absent.
NamesOmitted(p, e) ==
    \E n \in InputNames : inv[p].inputs[n] = "" /\ e = MissingInput(n)

Settled(p) == inv[p].pc \in {"rejected", "ended"}

Succeeded(p) == inv[p].pc = "ended" /\ inv[p].thrown = NoError

\* The organization and the repository the manifests were written with.
Org == IF toml = MyCli THEN <<"a", "c", "m", "e">> ELSE <<"c", "o", "l", "i", "n", "c", "a", "s", "e", "y">>

Repo == IF toml = MyCli THEN <<"m", "y", "c", "l", "i">> ELSE <<"l", "a", "n", "g", "u", "a", "g", "e", "s", "-", "g", "i", "t", "h", "u", "b", "-", "a", "c", "t", "i", "o", "n", "s">>

Sep == IF platform = "win32" THEN "\\" ELSE "/"

\* The directory of the tool cache for the organization/repository and version.
ExpectedDir ==
    ToolCacheRoot(platform) \o <<Sep>> \o Org \o <<Sep>> \o Repo \o <<Sep>>
        \o toml.version \o <<Sep>> \o <<"x", "6", "4">>

\* The release URL pattern with n as the name.
Pattern(n) ==
    <<"h", "t", "t", "p", "s", ":", "/", "/", "g", "i", "t", "h", "u", "b", ".", "c", "o", "m", "/">> \o Org \o <<"/">> \o Repo \o <<"/", "r", "e", "l", "e", "a", "s", "e", "s", "/", "d", "o", "w", "n", "l", "o", "a", "d", "/", "v">>
        \o toml.version \o <<"/">> \o n \o <<"-", "v">> \o toml.version \o <<"-">>
        \o PlatformChars(platform) \o <<"-", "x", "6", "4", ".", "t", "a", "r", ".", "g", "z">>

\* The last path segment.
RECURSIVE LastSegment(_)
LastSegment(path) ==
    IF path = <<>> \/ path[Len(path)] = Sep THEN <<>>
    ELSE Append(LastSegment(SubSeq(path, 1, Len(path) - 1)), path[Len(path)])

Rank(s) ==
    CASE s = "readManifest" -> 1
      [] s = "find"         -> 2
      [] s = "downloadTool" -> 3
      [] s = "extractTar"   -> 4
      [] s = "cacheFile"    -> 5
      [] s = "getArgs"      -> 6
      [] s = "exec"         -> 7

\* The errors the step that ran last can throw.
ThrownBy(p) ==
    LET st == inv[p].steps
    IN  IF st = <<>> THEN {UnsupportedPlatform(platform)}
        ELSE CASE st[Len(st)] = "readManifest" -> {ManifestError}
               [] st[Len(st)] = "find"         -> {}
               [] st[Len(st)] = "downloadTool" -> {DownloadError}
               [] st[Len(st)] = "extractTar"   -> {ExtractionError}
               [] st[Len(st)] = "cacheFile"    -> {MissingFileError}
               [] st[Len(st)] = "getArgs"      -> {MissingInput(n) : n \in InputNames}
               [] st[Len(st)] = "exec"         -> {ExitCodeError, SpawnError}

IOErrors == {DownloadError, ExtractionError, MissingFileError, ExitCodeError, SpawnError}

(***************************************************************************)
(* C1                                                                      *)
(***************************************************************************)
\* C1 as claimed: an invocation with a required input omitted performs no
\* download, no extraction, no cache registration and no spawn, and its
\* reported failure names the omitted input.
C1_FailsBeforeAnyIO ==
    \A p \in Invocations :
        (Usable /\ variant = "invokeWith" /\ inv[p].pc # "idle" /\ Omitted(p)) =>
            /\ ~Did(p, "downloadTool")
            /\ ~Did(p, "extractTar")
            /\ ~Did(p, "cacheFile")
            /\ ~Did(p, "exec")
            /\ inv[p].pc = "ended" =>
                  \E n \in InputNames :
                      /\ inv[p].inputs[n] = ""
                      /\ inv[p].failures = <<Message(MissingInput(n))>>

\* C1, amended: an invocation with a required input omitted never spawns the
\* process and ends in a reported failure.  The omission is found at argument
\* building, after the cache is resolved: on a cache hit there is no download,
\* extraction or registration and the failure names an omitted input; on a
\* miss the download, the extraction and the registration all come first, and
\* the failure names an omitted input when they succeeded.
C1_FailsBeforeSpawn ==
    \A p \in Invocations :
        (Usable /\ variant = "invokeWith" /\ inv[p].pc # "idle" /\ Omitted(p)) =>
            /\ ~Did(p, "exec")
            /\ inv[p].spawned = <<>>
            /\ inv[p].pc = "ended" => Len(inv[p].failures) = 1
            /\ inv[p].hit =>
                  /\ inv[p].steps = <<"readManifest", "find", "getArgs">>
                  /\ inv[p].url = <<>>
                  /\ inv[p].registered = <<>>
            /\ ~inv[p].hit /\ Did(p, "getArgs") =>
                  inv[p].steps = <<"readManifest", "find", "downloadTool",
                                   "extractTar", "cacheFile", "getArgs">>
            /\ Did(p, "getArgs") =>
                  /\ Settled(p)
                  /\ NamesOmitted(p, inv[p].thrown)
                  /\ inv[p].pc = "ended" => inv[p].failures = <<Message(inv[p].thrown)>>

\* An omitted input reported after a hit, and another after a miss that
\* downloaded, extracted and registered first.
C1_Witness ==
    \E p, q \in Invocations :
        /\ variant = "invokeWith"
        /\ inv[p].pc = "ended" /\ inv[q].pc = "ended"
        /\ inv[p].hit /\ NamesOmitted(p, inv[p].thrown)
        /\ ~inv[q].hit /\ NamesOmitted(q, inv[q].thrown) /\ Did(q, "cacheFile")

(***************************************************************************)
(* C2                                                                      *)
(***************************************************************************)
\* C2: every failure of an invocation reaches the .catch of invokeWith/run and
\* is reported exactly once with the message of the error the failing step
\* threw; nothing is reported before that, and an invocation that ends without
\* a report has spawned the binary and seen it exit with status 0.
C2_EveryFailureReportedOnce ==
    \A p \in Invocations :
        /\ inv[p].thrown # NoError =>
              /\ Settled(p)
              /\ inv[p].thrown \in ThrownBy(p)
        /\ inv[p].pc # "ended" => inv[p].failures = <<>>
        /\ inv[p].pc = "rejected" => inv[p].thrown # NoError
        /\ inv[p].pc = "ended" =>
              IF inv[p].thrown = NoError
              THEN inv[p].failures = <<>> /\ Did(p, "exec")
              ELSE inv[p].failures = <<Message(inv[p].thrown)>>

\* One invocation reported a failed download, another a binary that could
\* not be spawned.
C2_Witness ==
    \E p, q \in Invocations :
        /\ inv[p].pc = "ended" /\ inv[p].failures = <<Message(DownloadError)>>
        /\ inv[q].pc = "ended" /\ inv[q].failures = <<Message(SpawnError)>>

(***************************************************************************)
(* C3                                                                      *)
(***************************************************************************)
\* C3: on a platform other than win32, darwin and linux an invocation throws
\* the unsupported-platform error at once: no manifest read, no cache lookup,
\* no download, no extraction, no cache registration, no argument building,
\* no spawn, and the cache is left as it was.
C3_UnsupportedPlatformFailsAtOnce ==
    platform \notin {"win32", "darwin", "linux"} =>
        /\ cache = cache0
        /\ \A p \in Invocations :
              inv[p].pc # "idle" =>
                  /\ inv[p].steps = <<>>
                  /\ inv[p].thrown = UnsupportedPlatform(platform)
                  /\ Settled(p)
                  /\ inv[p].url = <<>>
                  /\ inv[p].extracted = {}
                  /\ inv[p].registered = <<>>
                  /\ inv[p].spawned = <<>>
                  /\ inv[p].pc = "ended" =>
                        inv[p].failures = <<<<"Unsupported platform: ", platform>>>>

\* An invocation on freebsd has ended with its failure reported.
C3_Witness ==
    /\ platform = "freebsd"
    /\ \E p \in Invocations :
          inv[p].pc = "ended" /\ inv[p].failures = <<<<"Unsupported platform: ", "freebsd">>>>

(***************************************************************************)
(* C4                                                                      *)
(***************************************************************************)
\* C4: when find returns a cached directory the invocation downloads
\* nothing, extracts nothing and registers nothing; the next things it does
\* are the argument building (invokeWith) and the spawn of the cached
\* directory joined with the name.
C4_HitSkipsDownload ==
    \A p \in Invocations :
        inv[p].hit =>
            /\ inv[p].url = <<>>
            /\ inv[p].extracted = {}
            /\ inv[p].registered = <<>>
            /\ ~Did(p, "downloadTool") /\ ~Did(p, "extractTar") /\ ~Did(p, "cacheFile")
            /\ inv[p].cachedPath # <<>>
            /\ inv[p].steps \in {<<"readManifest", "find", "getArgs">>,
                                 <<"readManifest", "find", "getArgs", "exec">>,
                                 <<"readManifest", "find", "exec">>}
            /\ (variant = "run" \/ ~Omitted(p)) => Did(p, "exec")
            /\ Did(p, "exec") =>
                  /\ Len(inv[p].spawned) = 1
                  /\ inv[p].spawned[1].path = inv[p].cachedPath \o <<Sep>> \o name

\* An invocation found the directory in the cache and spawned from it.
C4_Witness ==
    \E p \in Invocations :
        inv[p].hit /\ inv[p].lookup.present /\ Succeeded(p)

(***************************************************************************)
(* C5                                                                      *)
(***************************************************************************)
\* C5: an invocation that missed and succeeded made one download, then one
\* extraction, then one registration, under the key it had looked up; the
\* entry stays in the cache; and an invocation that looks the key up while
\* the entry is there downloads nothing and gets the same directory as every
\* other invocation.
C5_OneDownloadThenStable ==
    /\ \A p \in Invocations :
          /\ (Succeeded(p) /\ ~inv[p].lookup.present) =>
                /\ inv[p].steps \in
                       {<<"readManifest", "find", "downloadTool", "extractTar",
                          "cacheFile", "getArgs", "exec">>,
                        <<"readManifest", "find", "downloadTool", "extractTar",
                          "cacheFile", "exec">>}
                /\ Len(inv[p].registered) = 1
                /\ inv[p].registered[1].tool = inv[p].lookup.tool
                /\ inv[p].registered[1].version = inv[p].lookup.version
          /\ (Did(p, "cacheFile") /\ inv[p].pc # "cacheFile"
                  /\ inv[p].thrown # MissingFileError) =>
                HasEntry(cache, inv[p].lookup.tool, inv[p].lookup.version)
          /\ (Did(p, "find") /\ inv[p].lookup.present) =>
                /\ ~Did(p, "downloadTool")
                /\ inv[p].url = <<>>
                /\ inv[p].cachedPath = ExpectedDir
    /\ \A p, q \in Invocations :
          (inv[p].cachedPath # <<>> /\ inv[q].cachedPath # <<>>) =>
              inv[p].cachedPath = inv[q].cachedPath

\* One invocation missed, downloaded and registered; a later one found the
\* entry and succeeded without a download.
C5_Witness ==
    \E p, q \in Invocations :
        /\ cache0 = {OtherEntry}
        /\ Succeeded(p) /\ ~inv[p].lookup.present /\ Count(p, "downloadTool") = 1
        /\ Succeeded(q) /\ inv[q].lookup.present /\ inv[q].url = <<>>
        /\ inv[q].cachedPath = inv[p].cachedPath

(***************************************************************************)
(* C6                                                                      *)
(***************************************************************************)
\* The entry one invocation leaves for the manifest's key.
ExpectedEntry ==
    [tool |-> Org \o <<"/">> \o Repo, version |-> toml.version,
     files |-> {IF platform = "win32" THEN name \o <<".", "e", "x", "e">> ELSE name}]

\* C6: once all invocations have ended and none failed in a download, an
\* extraction, a registration or the child process, the cache is what one
\* invocation alone leaves (the entry of the key, the other entries
\* untouched), however the invocations interleaved, and every invocation
\* that built its arguments spawned the binary from the key's directory.
C6_RaceIsIdempotent ==
    (/\ Usable
     /\ \A p \in Invocations : inv[p].pc = "ended" /\ inv[p].thrown \notin IOErrors) =>
        /\ cache = {e \in cache0 : e.tool # ExpectedEntry.tool \/ e.version # toml.version}
                       \cup {ExpectedEntry}
        /\ \A p \in Invocations :
              IF inv[p].thrown = NoError
              THEN /\ inv[p].cachedPath = ExpectedDir
                   /\ inv[p].spawned = <<[path |-> ExpectedDir \o <<Sep>> \o name,
                                          args |-> inv[p].spawned[1].args]>>
              ELSE NamesOmitted(p, inv[p].thrown)

\* Every invocation saw a miss, downloaded and registered on its own, and
\* all of them succeeded.
C6_Witness ==
    /\ \A p \in Invocations :
          /\ Succeeded(p)
          /\ ~inv[p].hit
          /\ Count(p, "downloadTool") = 1
          /\ Count(p, "cacheFile") = 1
    /\ cache = cache0 \cup {ExpectedEntry}

(***************************************************************************)
(* C7                                                                      *)
(***************************************************************************)
\* C7 as claimed: the URL requested on a miss is the pattern with the first
\* declared binary name as {name}.
C7_UrlUsesFirstBinaryName ==
    \A p \in Invocations :
        inv[p].url # <<>> => inv[p].url = Pattern(toml.binName)

\* C7, amended: the URL requested on a miss is the pattern with the raw
\* platform identifier and, as {name}, the first declared binary name in
\* invokeWith and the package name in run; it depends on nothing else, so
\* invocations with the same manifest and platform request the same URL.
C7_UrlMatchesPattern ==
    /\ \A p \in Invocations :
          inv[p].url # <<>> =>
              /\ inv[p].url = Pattern(IF variant = "invokeWith"
                                      THEN toml.binName ELSE toml.packageName)
              /\ (toml = MyCli /\ platform = "linux") =>
                    inv[p].url = <<"h", "t", "t", "p", "s", ":", "/", "/", "g", "i", "t", "h", "u", "b", ".", "c", "o", "m", "/", "a", "c", "m", "e", "/", "m", "y", "c", "l", "i", "/", "r", "e", "l", "e", "a", "s", "e", "s", "/", "d", "o", "w", "n", "l", "o", "a", "d", "/", "v", "1", ".", "2", ".", "3", "/", "m", "y", "c", "l", "i", "-", "v", "1", ".", "2", ".", "3", "-", "l", "i", "n", "u", "x", "-", "x", "6", "4", ".", "t", "a", "r", ".", "g", "z">>
              /\ (toml = MyCli /\ platform = "win32") =>
                    inv[p].url = <<"h", "t", "t", "p", "s", ":", "/", "/", "g", "i", "t", "h", "u", "b", ".", "c", "o", "m", "/", "a", "c", "m", "e", "/", "m", "y", "c", "l", "i", "/", "r", "e", "l", "e", "a", "s", "e", "s", "/", "d", "o", "w", "n", "l", "o", "a", "d", "/", "v", "1", ".", "2", ".", "3", "/", "m", "y", "c", "l", "i", "-", "v", "1", ".", "2", ".", "3", "-", "w", "i", "n", "3", "2", "-", "x", "6", "4", ".", "t", "a", "r", ".", "g", "z">>
    /\ \A p, q \in Invocations :
          (inv[p].url # <<>> /\ inv[q].url # <<>>) => inv[p].url = inv[q].url

\* run downloaded the archive of a manifest whose package name is not its
\* first binary name.
C7_Witness ==
    /\ variant = "run" /\ toml = Actions /\ platform = "darwin"
    /\ \E p \in Invocations : inv[p].url # <<>> /\ inv[p].pc = "extractTar"

(***************************************************************************)
(* C8                                                                      *)
(***************************************************************************)
\* C8: the file looked for in the extraction directory and registered in
\* the cache is the name with .exe on win32 and the bare name on darwin and
\* linux.
C8_ExeSuffixOnlyOnWindows ==
    \A p \in Invocations :
        inv[p].registered # <<>> =>
            LET reg  == inv[p].registered[1]
                file == IF platform = "win32" THEN name \o <<".", "e", "x", "e">> ELSE name
            IN  /\ platform \in {"darwin", "linux"} => reg.target = name
                /\ platform = "win32" => reg.target = name \o <<".", "e", "x", "e">>
                /\ EndsWith(reg.target, <<".", "e", "x", "e">>) <=> platform = "win32"
                /\ reg.source = tempDirectory(platform) \o <<Sep>> \o file
                /\ (inv[p].pc # "cacheFile" /\ inv[p].thrown # MissingFileError) =>
                      \E e \in cache :
                          /\ e.tool = reg.tool
                          /\ e.version = reg.version
                          /\ e.files = {file}

\* A registration on win32 that went through.
C8_Witness ==
    /\ platform = "win32"
    /\ \E p \in Invocations :
          /\ inv[p].registered # <<>>
          /\ Did(p, "exec")
          /\ EndsWith(inv[p].registered[1].target, <<".", "e", "x", "e">>)

(***************************************************************************)
(* C9                                                                      *)
(***************************************************************************)
\* C9: after a hit and after a miss alike, the path spawned is the cached
\* directory joined with the bare name; on win32 it is not the name of the
\* file in the cache entry (name.exe), on darwin and linux it is.
C9_SpawnsBareName ==
    \A p \in Invocations :
        inv[p].spawned # <<>> =>
            LET path == inv[p].spawned[1].path
            IN  /\ Len(inv[p].spawned) = 1
                /\ path = inv[p].cachedPath \o <<Sep>> \o name
                /\ inv[p].cachedPath = ExpectedDir
                /\ LastSegment(path) = name
                /\ \A e \in cache :
                      (e.tool = inv[p].lookup.tool /\ e.version = inv[p].lookup.version) =>
                          (LastSegment(path) \in e.files <=> platform # "win32")
                /\ \A i \in DOMAIN inv[p].registered :
                      (LastSegment(path) = inv[p].registered[i].target) <=> platform # "win32"

\* On win32, one invocation spawned after a miss and another after a hit.
C9_Witness ==
    /\ platform = "win32"
    /\ \E p, q \in Invocations :
          /\ inv[p].spawned # <<>> /\ ~inv[p].hit /\ inv[p].registered # <<>>
          /\ inv[q].spawned # <<>> /\ inv[q].hit

(***************************************************************************)
(* C10                                                                     *)
(***************************************************************************)
\* C10: the steps of an invocation run in the order cache lookup,
\* download, extraction, cache registration, argument building, spawn, each
\* at most once, and the step that failed is the last one that ran: nothing
\* is spawned after a failed download, extraction, registration or argument
\* building.
C10_StepsInOrderNoRetry ==
    \A p \in Invocations :
        LET st == inv[p].steps
        IN  /\ \A i, j \in DOMAIN st : i < j => Rank(st[i]) < Rank(st[j])
            /\ Did(p, "downloadTool") => Did(p, "find")
            /\ Did(p, "extractTar") => Did(p, "downloadTool")
            /\ Did(p, "cacheFile") => Did(p, "extractTar")
            /\ Did(p, "exec") => Did(p, "find")
            /\ (Did(p, "exec") /\ variant = "invokeWith") => Did(p, "getArgs")
            /\ Len(inv[p].spawned) = Count(p, "exec")
            /\ inv[p].thrown # NoError => inv[p].thrown \in ThrownBy(p)
            /\ inv[p].thrown \in {DownloadError, ExtractionError, MissingFileError}
                                 \cup {MissingInput(n) : n \in InputNames} =>
                  /\ ~Did(p, "exec")
                  /\ inv[p].spawned = <<>>

\* A download failed and the invocation ended there.
C10_Witness ==
    \E p \in Invocations :
        /\ inv[p].pc = "ended"
        /\ inv[p].thrown = DownloadError
        /\ inv[p].steps = <<"readManifest", "find", "downloadTool">>

=============================================================================
